---- MODULE Spec2Model ----
(***************************************************************************)
(* eks-pricing-exporter: the pricing repository (pkg/pricing), its          *)
(* providers, the callers of UpdatePricing in main, and the node model      *)
(* (pkg/model) that resolves a node's price from the repository.            *)
(*                                                                          *)
(* Prices are integers (micro-dollars per hour); the zero time.Time is 0.   *)
(***************************************************************************)
EXTENDS Integers, Sequences, FiniteSets, TLC

(***************************************************************************)
(* Bounds of the model.                                                     *)
(***************************************************************************)
\* number of UpdatePricing invocations of one run (the first is main's cold start)
MaxCalls == 2
\* number of pod keys (namespace, name) the cluster inventory binds to a node
MaxPods == 2
\* number of BindPod and DeletePod calls on a node
MaxPodOps == 2
\* number of single-category refreshes called directly on the repository
MaxRefreshes == 2
\* number of pages a paginated request of a provider delivers
MaxPages == 2
\* the longest chain of pages a list function serves to a Paginator
MaxChain == 2
\* the number of listFunc calls after which a run of Paginator.Get is cut off
MaxListCalls == 3

Nil == "nil"

\* a float64 that is either a number or NaN
Float(v) == [nan |-> FALSE, val |-> v]
NaN == [nan |-> TRUE, val |-> 0]
\* the == of float64: NaN equals nothing, itself included
FloatEq(a, b) == ~a.nan /\ ~b.nan /\ a.val = b.val

\* a price string of a record: strconv.ParseFloat succeeds with a value, or fails
Usd(v) == [parses |-> TRUE, val |-> v]
BadUsd == [parses |-> FALSE, val |-> 0]

\* one page of a paginated request: NextPage fails, or delivers its items
Page(items) == [fails |-> FALSE, items |-> items]
PageErr == [fails |-> TRUE, items |-> <<>>]

Categories == {"OnDemand", "Spot", "Fargate"}
CallIds == 1..MaxCalls

\* a Go map with no entry (nil map or make(map)): lookups find nothing, len is 0
EmptyMap == [k \in {} |-> 0]

InstanceTypes == {"m5.large", "m5.metal"}
Zones == {"us-east-1a", "us-east-1b"}

\* type FargatePrice struct { VCPUPerHour, GBPerHour float64 }
NewFargatePrice(vcpu, gb) == [VCPUPerHour |-> vcpu, GBPerHour |-> gb]

\* the result of one Provider method: (pricing, err), or a panic that unwinds the goroutine
Ok(pricing) == [panic |-> FALSE, err |-> Nil, pricing |-> pricing]
Err(e, pricing) == [panic |-> FALSE, err |-> e, pricing |-> pricing]
Panic(zero) == [panic |-> TRUE, err |-> Nil, pricing |-> zero]

(***************************************************************************)
(* AWSProvider (aws_provider.go)                                            *)
(***************************************************************************)
\* mutant of Assign: on a collision the first map wins
AssignFirstWins(a, b) ==
  [k \in (DOMAIN a) \cup (DOMAIN b) |-> IF k \in DOMAIN a THEN a[k] ELSE b[k]]

\* lo.Assign(a, b): the union of the keys, later maps overwrite earlier ones
Assign(a, b) ==
  [k \in (DOMAIN a) \cup (DOMAIN b) |-> IF k \in DOMAIN b THEN b[k] ELSE a[k]]

\* one record of the EC2 price list: it decodes or not; InstanceType is "" when the
\* attribute is missing; USD is the sequence of the price strings of its price dimensions
\* (the dimensions are the entries of Go maps, ranged over in no particular order: the
\* records of the model carry at most one usable price)
OnDemandItem(decodes, it, usd) == [decodes |-> decodes, InstanceType |-> it, USD |-> usd]

\* the loop over the terms and price dimensions of one record
RECURSIVE OnDemandDims(_, _, _)
OnDemandDims(prices, it, usd) ==
  IF usd = <<>> THEN prices
  ELSE IF ~Head(usd).parses \/ Head(usd).val = 0 THEN OnDemandDims(prices, it, Tail(usd))
  ELSE OnDemandDims([k \in (DOMAIN prices) \cup {it} |-> IF k = it THEN Head(usd).val ELSE prices[k]],
                    it, Tail(usd))

RECURSIVE parseOnDemandPage(_, _)
parseOnDemandPage(prices, page) ==
  IF page = <<>> THEN [err |-> Nil, prices |-> prices]
  ELSE LET pItem == Head(page) IN
       IF ~pItem.decodes THEN [err |-> "decoding", prices |-> prices]
       ELSE IF pItem.InstanceType = "" THEN parseOnDemandPage(prices, Tail(page))
       ELSE parseOnDemandPage(OnDemandDims(prices, pItem.InstanceType, pItem.USD), Tail(page))

\* the loop of fetchOnDemandPricing over the pages of one query
RECURSIVE OnDemandPages(_, _)
OnDemandPages(prices, pages) ==
  IF pages = <<>> THEN Ok(prices)
  ELSE IF Head(pages).fails THEN Err("on-demand page error", EmptyMap)
  ELSE LET r == parseOnDemandPage(prices, Head(pages).items) IN
       IF r.err # Nil THEN Err(r.err, EmptyMap) ELSE OnDemandPages(r.prices, Tail(pages))

fetchOnDemandPricing(pages) == OnDemandPages(EmptyMap, pages)

\* mutant of GetOnDemandPricing: it fails only when both queries found nothing
GetOnDemandPricingEitherQuery(shared, metal) ==
  IF shared.err # Nil THEN Err(shared.err, EmptyMap)
  ELSE IF metal.err # Nil THEN Err(metal.err, EmptyMap)
  ELSE IF Cardinality(DOMAIN shared.pricing) = 0 /\ Cardinality(DOMAIN metal.pricing) = 0
       THEN Err("no on-demand pricing found", EmptyMap)
  ELSE Ok([k \in (DOMAIN shared.pricing) \cup (DOMAIN metal.pricing) |->
             IF k \in DOMAIN metal.pricing THEN metal.pricing[k] ELSE shared.pricing[k]])

\* GetOnDemandPricing over the results (prices, err) of its two fetchOnDemandPricing calls
GetOnDemandPricing(shared, metal) ==
  IF shared.err # Nil THEN Err(shared.err, EmptyMap)
  ELSE IF metal.err # Nil THEN Err(metal.err, EmptyMap)
  ELSE IF Cardinality(DOMAIN shared.pricing) = 0 \/ Cardinality(DOMAIN metal.pricing) = 0
       THEN Err("no on-demand pricing found", EmptyMap)
  ELSE Ok(Assign(shared.pricing, metal.pricing))

\* one record of the spot price history: SpotPrice is a price string (Usd, BadUsd),
\* Timestamp is set or nil
SpotRecord(it, az, price, ts) == [InstanceType |-> it, AvailabilityZone |-> az, SpotPrice |-> price, Timestamp |-> ts]

\* the body of the loop over output.SpotPriceHistory for one record
SpotPut(prices, sph) ==
  IF ~sph.SpotPrice.parses THEN prices
  ELSE IF ~sph.Timestamp THEN prices
  ELSE LET zones == IF sph.InstanceType \in DOMAIN prices THEN prices[sph.InstanceType] ELSE EmptyMap
           az == sph.AvailabilityZone
       IN [k \in (DOMAIN prices) \cup {sph.InstanceType} |->
             IF k = sph.InstanceType
             THEN [z \in (DOMAIN zones) \cup {az} |-> IF z = az THEN sph.SpotPrice.val ELSE zones[z]]
             ELSE prices[k]]

RECURSIVE SpotPage(_, _)
SpotPage(prices, page) ==
  IF page = <<>> THEN prices ELSE SpotPage(SpotPut(prices, Head(page)), Tail(page))

\* GetSpotPricing over the pages the paginator delivers
RECURSIVE SpotPages(_, _)
SpotPages(prices, pages) ==
  IF pages = <<>>
  THEN IF Cardinality(DOMAIN prices) = 0 THEN Err("no spot pricing found", EmptyMap) ELSE Ok(prices)
  ELSE IF Head(pages).fails THEN Err("spot page error", EmptyMap)
  ELSE SpotPages(SpotPage(prices, Head(pages).items), Tail(pages))

GetSpotPricing(pages) == SpotPages(EmptyMap, pages)

\* one record of the EKS price list: it decodes or not; UsageType is the set of the
\* markers it contains; USD is the sequence of the price strings of its price dimensions
FargateRecord(decodes, usage, usd) == [decodes |-> decodes, UsageType |-> usage, USD |-> usd]

\* the loop over the price dimensions of one relevant record; on an error the
\* *FargatePrice returned is nil
RECURSIVE FargateDims(_, _, _)
FargateDims(fp, name, usd) ==
  IF usd = <<>> THEN [err |-> Nil, price |-> fp]
  ELSE IF ~Head(usd).parses \/ Head(usd).val = 0 THEN FargateDims(fp, name, Tail(usd))
  ELSE IF "vCPU-Hours" \in name
       THEN FargateDims([fp EXCEPT !.VCPUPerHour = Head(usd).val], name, Tail(usd))
  ELSE IF "GB-Hours" \in name
       THEN FargateDims([fp EXCEPT !.GBPerHour = Head(usd).val], name, Tail(usd))
  ELSE [err |-> "unsupported fargate price information found", price |-> fp]

RECURSIVE parseFargatePage(_, _)
parseFargatePage(fargatePrice, page) ==
  IF page = <<>> THEN [err |-> Nil, price |-> fargatePrice]
  ELSE LET pItem == Head(page) IN
       IF ~pItem.decodes THEN [err |-> "decoding", price |-> fargatePrice]
       ELSE IF "Fargate" \notin pItem.UsageType THEN parseFargatePage(fargatePrice, Tail(page))
       ELSE LET r == FargateDims(fargatePrice, pItem.UsageType, pItem.USD) IN
            IF r.err # Nil THEN r ELSE parseFargatePage(r.price, Tail(page))

\* the loop of GetFargatePricing: "return *price, err" after parseFargatePage failed
\* dereferences the nil pointer parseFargatePage returned, which panics
RECURSIVE FargatePages(_, _)
FargatePages(price, pages) ==
  IF pages = <<>> THEN Ok(price)
  ELSE IF Head(pages).fails THEN Err("fargate page error", price)
  ELSE LET r == parseFargatePage(price, Head(pages).items) IN
       IF r.err # Nil THEN Panic(NewFargatePrice(0, 0)) ELSE FargatePages(r.price, Tail(pages))

GetFargatePricing(pages) == FargatePages(NewFargatePrice(0, 0), pages)

(***************************************************************************)
(* StaticProvider                                                           *)
(***************************************************************************)
\* initialOnDemandPrices, the table compiled into the binary
initialOnDemandPrices == [it \in {"m5.large"} |-> 96000]
StaticGetOnDemandPricing == Ok(initialOnDemandPrices)
StaticGetSpotPricing == Ok(EmptyMap)
StaticGetFargatePricing == Ok(NewFargatePrice(0, 0))

(***************************************************************************)
(* What the external sources deliver to a refresh.                          *)
(***************************************************************************)
OnDemandFeeds ==
  { <<Ok([it \in {"m5.large"} |-> 96000]), Ok([it \in {"m5.metal"} |-> 4608000])>>,
    <<Ok([it \in {"m5.large"} |-> 96000]), Ok(EmptyMap)>> }

SpotFeeds ==
  { << Page(<<SpotRecord("m5.large", "us-east-1a", Usd(30000), TRUE)>>) >>,
    << PageErr >> }

FargateFeeds ==
  { << Page(<<FargateRecord(TRUE, {"Fargate", "vCPU-Hours"}, <<Usd(40480)>>),
              FargateRecord(TRUE, {"Fargate", "GB-Hours"}, <<Usd(4445)>>)>>) >>,
    << Page(<<FargateRecord(TRUE, {"Fargate", "vCPU-Hours"}, <<Usd(40480)>>)>>) >>,
    << Page(<<FargateRecord(TRUE, {"Fargate"}, <<Usd(100)>>)>>) >>,
    << PageErr >> }

\* the pages the price list delivers to a query of fetchOnDemandPricing
OnDemandPageSet ==
  { Page(<<OnDemandItem(TRUE, "m5.large", <<Usd(96000)>>)>>),
    Page(<<OnDemandItem(TRUE, "m5.metal", <<Usd(4608000)>>), OnDemandItem(TRUE, "", <<Usd(5)>>)>>),
    Page(<<OnDemandItem(TRUE, "m5.large", <<BadUsd, Usd(0)>>)>>),
    Page(<<OnDemandItem(TRUE, "m5.large", <<Usd(97000)>>)>>),
    Page(<<OnDemandItem(FALSE, "", <<>>)>>),
    PageErr }

\* the pages the spot price history delivers; strconv.ParseFloat also parses a
\* negative number
SpotPageSet ==
  { Page(<<SpotRecord("m5.large", "us-east-1a", Usd(30000), TRUE)>>),
    Page(<<SpotRecord("m5.large", "us-east-1a", Usd(31000), TRUE),
           SpotRecord("m5.large", "us-east-1b", Usd(29000), TRUE)>>),
    Page(<<SpotRecord("m5.large", "us-east-1a", BadUsd, TRUE)>>),
    Page(<<SpotRecord("m5.large", "us-east-1b", Usd(28000), FALSE)>>),
    Page(<<SpotRecord("m5.metal", "us-east-1a", Usd(0 - 30000), TRUE)>>),
    Page(<<>>),
    PageErr }

\* the pages the EKS price list delivers to GetFargatePricing
FargatePageSet ==
  { Page(<<FargateRecord(TRUE, {"Fargate", "vCPU-Hours"}, <<Usd(40480)>>),
           FargateRecord(TRUE, {"Fargate", "GB-Hours"}, <<Usd(4445)>>)>>),
    Page(<<FargateRecord(TRUE, {"Fargate", "vCPU-Hours"}, <<Usd(40480)>>)>>),
    Page(<<FargateRecord(TRUE, {"Fargate", "GB-Hours"}, <<Usd(4445)>>),
           FargateRecord(TRUE, {"vCPU-Hours"}, <<Usd(7)>>)>>),
    Page(<<FargateRecord(TRUE, {"Fargate"}, <<Usd(100)>>)>>),
    Page(<<FargateRecord(FALSE, {}, <<>>)>>),
    Page(<<FargateRecord(TRUE, {"Fargate", "vCPU-Hours"}, <<BadUsd, Usd(0)>>)>>),
    Page(<<FargateRecord(TRUE, {"Fargate"}, <<BadUsd, Usd(0)>>)>>),
    PageErr }

\* the page sequences of one paginated request: NextPage is called at least once
Feeds(pageSet) == UNION {[1..n -> pageSet] : n \in 1..MaxPages}

\* the results pr.pricingProvider.GetXPricing(ctx) can return, per Provider variant
ProviderResults(provider, c) ==
  IF provider = "Static"
  THEN CASE c = "OnDemand" -> {StaticGetOnDemandPricing}
         [] c = "Spot" -> {StaticGetSpotPricing}
         [] c = "Fargate" -> {StaticGetFargatePricing}
  ELSE CASE c = "OnDemand" -> {GetOnDemandPricing(f[1], f[2]) : f \in OnDemandFeeds}
         [] c = "Spot" -> {GetSpotPricing(f) : f \in SpotFeeds}
         [] c = "Fargate" -> {GetFargatePricing(f) : f \in FargateFeeds}

(***************************************************************************)
(* State                                                                    *)
(***************************************************************************)
VARIABLES
  pricingProvider,      \* Repository.pricingProvider: "Static" or "Live" (AWSProvider)
  mu,                   \* Repository.mu: [writer, readers]
  onDemandUpdateTime, onDemandPrices,
  spotUpdateTime, spotPrices,
  fargateUpdateTime, fargatePrice,
  now,                  \* the clock time.Now() reads
  process,              \* "running", "fatal" (log.Fatalf) or "panic"
  calls,                \* the UpdatePricing invocations: [caller, pc, errs, ret]
  refresh,              \* the goroutine of each invocation and category: [pc, pricing, err, seen]
  reader,               \* a metrics collection: "idle", or "rlocked" inside a read accessor
  committed,            \* history: per category, the (table, timestamp) at the last Unlock
  refreshes,            \* number of single-category refreshes called directly so far
  labels,               \* Node.node.Labels
  pods,                 \* Node.pods
  used,                 \* Node.used
  Price,                \* Node.Price
  podOps,               \* number of BindPod and DeletePod calls so far
  priced,               \* history: the last step on the node or the repository was UpdatePrice
  lastPrice,            \* history: Node.Price when the last UpdatePrice was called
  lookup,               \* history: the Repository lookup that UpdatePrice made, if it was the last step
  method,               \* the Provider method called last on its own: a category, or Nil
  feed,                 \* what the external source delivered to that call
  result,               \* what that call returned
  lister,               \* a goroutine calling InstanceTypes(): "idle", "rlocked" or "keys"
  keys,                 \* lo.Keys(pr.onDemandPrices) as that call evaluated it
  types,                \* what InstanceTypes() returned last
  chain,                \* the pages the list function of a Paginator serves
  cont,                 \* Get: the variable cont declared before the loop
  got,                  \* Get: the slice result
  tokens,               \* history: the continuation token passed to each listFunc call
  returned,             \* history: the continuation token each listFunc call returned
  getPc                 \* Get: "idle", "loop" or "returned"

repoVars == <<pricingProvider, mu, onDemandUpdateTime, onDemandPrices, spotUpdateTime,
              spotPrices, fargateUpdateTime, fargatePrice, now, process, calls, refresh,
              reader, committed>>

nodeVars == <<labels, pods, used, Price, podOps, priced, lastPrice, lookup>>

provVars == <<method, feed, result>>

listerVars == <<lister, keys, types>>

pagVars == <<chain, cont, got, tokens, returned, getPc>>

vars == <<repoVars, refreshes, nodeVars, provVars, listerVars, pagVars>>

Table(c) == CASE c = "OnDemand" -> onDemandPrices [] c = "Spot" -> spotPrices [] c = "Fargate" -> fargatePrice
UpdateTime(c) == CASE c = "OnDemand" -> onDemandUpdateTime [] c = "Spot" -> spotUpdateTime [] c = "Fargate" -> fargateUpdateTime

\* the zero value of a category's pricing
ZeroPricing(c) == IF c = "Fargate" THEN NewFargatePrice(0, 0) ELSE EmptyMap

\* NewRepository(provider): every field but the provider is its zero value
NewRepository(provider) ==
  /\ pricingProvider = provider
  /\ mu = [writer |-> Nil, readers |-> 0]
  /\ onDemandUpdateTime = 0 /\ onDemandPrices = EmptyMap
  /\ spotUpdateTime = 0 /\ spotPrices = EmptyMap
  /\ fargateUpdateTime = 0 /\ fargatePrice = NewFargatePrice(0, 0)

RepoInit ==
  /\ \E provider \in {"Static", "Live"} : NewRepository(provider)
  /\ now = 1
  /\ process = "running"
  /\ calls = [i \in CallIds |-> [caller |-> Nil, pc |-> "idle", errs |-> <<>>, ret |-> <<>>]]
  /\ refresh = [w \in CallIds \X Categories |->
                  [pc |-> "idle", pricing |-> ZeroPricing(w[2]), err |-> Nil, seen |-> <<>>]]
  /\ reader = "idle"
  /\ committed = [c \in Categories |-> <<ZeroPricing(c), 0>>]

(***************************************************************************)
(* Repository.mu (sync.RWMutex)                                             *)
(***************************************************************************)
\* mutant of CanRLock: RLock does not wait for the writer
CanRLockDespiteWriter == TRUE

CanLock == mu.writer = Nil /\ mu.readers = 0
CanRLock == mu.writer = Nil

(***************************************************************************)
(* Repository.UpdateOnDemandPricing / UpdateSpotPricing / UpdateFargatePricing *)
(* run by the goroutine w = <<call, category>>                              *)
(***************************************************************************)
\* pr.onDemandPrices = pricing / pr.spotPrices = pricing / pr.fargatePrice = pricing
SetPrices(c, pricing) ==
  /\ onDemandPrices' = IF c = "OnDemand" THEN pricing ELSE onDemandPrices
  /\ spotPrices' = IF c = "Spot" THEN pricing ELSE spotPrices
  /\ fargatePrice' = IF c = "Fargate" THEN pricing ELSE fargatePrice

\* mutant of SetUpdateTime: every refresh stamps the three categories
SetUpdateTimeOfAll(c, t) ==
  /\ onDemandUpdateTime' = t
  /\ spotUpdateTime' = t
  /\ fargateUpdateTime' = t

\* mutant of SetUpdateTime: the timestamp is written by the first refresh only
SetUpdateTimeOnce(c, t) ==
  /\ onDemandUpdateTime' = IF c = "OnDemand" /\ onDemandUpdateTime = 0 THEN t ELSE onDemandUpdateTime
  /\ spotUpdateTime' = IF c = "Spot" /\ spotUpdateTime = 0 THEN t ELSE spotUpdateTime
  /\ fargateUpdateTime' = IF c = "Fargate" /\ fargateUpdateTime = 0 THEN t ELSE fargateUpdateTime

\* pr.onDemandUpdateTime = time.Now() / pr.spotUpdateTime = ... / pr.fargateUpdateTime = ...
SetUpdateTime(c, t) ==
  /\ onDemandUpdateTime' = IF c = "OnDemand" THEN t ELSE onDemandUpdateTime
  /\ spotUpdateTime' = IF c = "Spot" THEN t ELSE spotUpdateTime
  /\ fargateUpdateTime' = IF c = "Fargate" THEN t ELSE fargateUpdateTime

\* mutant of ReturnsEarly: the error check is missing
ReturnsEarlyNever(err) == FALSE

\* "if err != nil { return err }"
ReturnsEarly(err) == err # Nil

\* the goroutine of w is a closure of UpdatePricing (not a direct call of the method)
InUpdatePricing(w) == calls[w[1]].caller # "direct"

\* pricing, err := pr.pricingProvider.GetXPricing(ctx) returns. A panic of the provider
\* unwinds the goroutine and ends the process. With an error the method returns it; the
\* closure of UpdatePricing then starts "errs = append(errs, err)" by reading errs (the
\* read and the write of errs are not synchronised, so they are two steps).
Fetch(w) ==
  /\ process = "running"
  /\ refresh[w].pc = "fetching"
  /\ \E r \in ProviderResults(pricingProvider, w[2]) :
       IF r.panic
       THEN /\ process' = "panic"
            /\ UNCHANGED refresh
       ELSE /\ UNCHANGED process
            /\ refresh' = [refresh EXCEPT ![w] =
                 [pc |-> IF ReturnsEarly(r.err)
                         THEN IF InUpdatePricing(w) THEN "appending" ELSE "done"
                         ELSE "fetched",
                  pricing |-> r.pricing, err |-> r.err,
                  seen |-> IF ReturnsEarly(r.err) /\ InUpdatePricing(w) THEN calls[w[1]].errs ELSE <<>>]]
  /\ UNCHANGED <<refreshes, nodeVars, provVars, listerVars, pagVars>>
  /\ UNCHANGED <<pricingProvider, mu, onDemandUpdateTime, onDemandPrices, spotUpdateTime,
                 spotPrices, fargateUpdateTime, fargatePrice, now, calls, reader, committed>>

\* pr.mu.Lock(); pr.xPrices = pricing
LockAndSetPrices(w) ==
  /\ process = "running"
  /\ refresh[w].pc = "fetched"
  /\ CanLock
  /\ mu' = [mu EXCEPT !.writer = w]
  /\ SetPrices(w[2], refresh[w].pricing)
  /\ refresh' = [refresh EXCEPT ![w].pc = "locked"]
  /\ UNCHANGED <<refreshes, nodeVars, provVars, listerVars, pagVars>>
  /\ UNCHANGED <<pricingProvider, onDemandUpdateTime, spotUpdateTime, fargateUpdateTime,
                 now, process, calls, reader, committed>>

\* pr.xUpdateTime = time.Now(); return nil, with the deferred pr.mu.Unlock()
SetUpdateTimeAndUnlock(w) ==
  /\ process = "running"
  /\ refresh[w].pc = "locked"
  /\ mu.writer = w
  /\ SetUpdateTime(w[2], now)
  /\ now' = now + 1
  /\ mu' = [mu EXCEPT !.writer = Nil]
  /\ refresh' = [refresh EXCEPT ![w].pc = "done"]
  /\ committed' = [committed EXCEPT ![w[2]] = <<Table(w[2]), now>>]
  /\ UNCHANGED <<refreshes, nodeVars, provVars, listerVars, pagVars>>
  /\ UNCHANGED <<pricingProvider, onDemandPrices, spotPrices, fargatePrice, process, calls, reader>>

\* the write of "errs = append(errs, err)", then the deferred wg.Done()
AppendErr(w) ==
  /\ process = "running"
  /\ refresh[w].pc = "appending"
  /\ calls' = [calls EXCEPT ![w[1]].errs = Append(refresh[w].seen, refresh[w].err)]
  /\ refresh' = [refresh EXCEPT ![w].pc = "done", ![w].seen = <<>>]
  /\ UNCHANGED <<refreshes, nodeVars, provVars, listerVars, pagVars>>
  /\ UNCHANGED <<pricingProvider, mu, onDemandUpdateTime, onDemandPrices, spotUpdateTime,
                 spotPrices, fargateUpdateTime, fargatePrice, now, process, reader, committed>>

UpdateOnDemandPricing(i) ==
  LET w == <<i, "OnDemand">> IN Fetch(w) \/ LockAndSetPrices(w) \/ SetUpdateTimeAndUnlock(w)
UpdateSpotPricing(i) ==
  LET w == <<i, "Spot">> IN Fetch(w) \/ LockAndSetPrices(w) \/ SetUpdateTimeAndUnlock(w)
UpdateFargatePricing(i) ==
  LET w == <<i, "Fargate">> IN Fetch(w) \/ LockAndSetPrices(w) \/ SetUpdateTimeAndUnlock(w)

\* mutant of CallDirect: the method takes the write lock before it calls the provider
CallDirectUnderLock(i, c) ==
  /\ process = "running"
  /\ calls[i].pc = "idle"
  /\ \A j \in CallIds : j < i => calls[j].pc # "idle"
  /\ CanLock
  /\ mu' = [mu EXCEPT !.writer = <<i, c>>]
  /\ calls' = [calls EXCEPT ![i] = [caller |-> "direct", pc |-> "direct", errs |-> <<>>, ret |-> <<>>]]
  /\ refresh' = [refresh EXCEPT ![<<i, c>>].pc = "fetching"]
  /\ UNCHANGED <<refreshes, nodeVars, provVars, listerVars, pagVars>>
  /\ UNCHANGED <<pricingProvider, onDemandUpdateTime, onDemandPrices, spotUpdateTime,
                 spotPrices, fargateUpdateTime, fargatePrice, now, process, reader, committed>>

\* a goroutine calls one of the three methods directly
CallDirect(i, c) ==
  /\ process = "running"
  /\ calls[i].pc = "idle"
  /\ \A j \in CallIds : j < i => calls[j].pc # "idle"
  /\ calls' = [calls EXCEPT ![i] = [caller |-> "direct", pc |-> "direct", errs |-> <<>>, ret |-> <<>>]]
  /\ refresh' = [refresh EXCEPT ![<<i, c>>].pc = "fetching"]
  /\ UNCHANGED <<refreshes, nodeVars, provVars, listerVars, pagVars>>
  /\ UNCHANGED <<pricingProvider, mu, onDemandUpdateTime, onDemandPrices, spotUpdateTime,
                 spotPrices, fargateUpdateTime, fargatePrice, now, process, reader, committed>>

(***************************************************************************)
(* Repository.UpdatePricing and its callers in main                         *)
(***************************************************************************)
\* multierr.Combine(errs...): nil (<<>>) for no error, else all of them
Combine(errs) == errs

\* which caller may invoke UpdatePricing now: main's cold start first; the admin
\* handler and the hourly loop once the cold start returned nil; the loop one call
\* at a time
MayCall(i, caller) ==
  /\ calls[i].pc = "idle"
  /\ \A j \in CallIds : j < i => calls[j].pc # "idle"
  /\ IF i = 1 THEN caller = "main"
     ELSE /\ caller \in {"admin", "schedule"}
          /\ calls[1].pc = "returned"
          /\ caller = "schedule" =>
               \A j \in CallIds : calls[j].caller = "schedule" => calls[j].pc = "returned"

\* UpdatePricing up to its three go statements
UpdatePricingStart(i) ==
  /\ process = "running"
  /\ \E caller \in {"main", "admin", "schedule"} :
       /\ MayCall(i, caller)
       /\ calls' = [calls EXCEPT ![i] = [caller |-> caller, pc |-> "started", errs |-> <<>>, ret |-> <<>>]]
  /\ refresh' = [w \in CallIds \X Categories |->
                   IF w[1] = i THEN [refresh[w] EXCEPT !.pc = "fetching"] ELSE refresh[w]]
  /\ UNCHANGED <<refreshes, nodeVars, provVars, listerVars, pagVars>>
  /\ UNCHANGED <<pricingProvider, mu, onDemandUpdateTime, onDemandPrices, spotUpdateTime,
                 spotPrices, fargateUpdateTime, fargatePrice, now, process, reader, committed>>

\* what UpdatePricing needs before "if len(errs) != 0": nothing, wg.Wait() is never called
MayReturn(i) == TRUE

\* main and the hourly loop end the process with log.Fatalf on an error; the admin
\* handler answers 500
CallerExits(caller, ret) == caller \in {"main", "schedule"} /\ ret # <<>>

\* "if len(errs) != 0 { return multierr.Combine(errs...) }; return nil", and the caller's
\* handling of the result
UpdatePricingReturn(i) ==
  /\ process = "running"
  /\ calls[i].pc = "started"
  /\ MayReturn(i)
  /\ LET ret == IF Len(calls[i].errs) # 0 THEN Combine(calls[i].errs) ELSE <<>> IN
       /\ calls' = [calls EXCEPT ![i].pc = "returned", ![i].ret = ret]
       /\ process' = IF CallerExits(calls[i].caller, ret) THEN "fatal" ELSE process
  /\ UNCHANGED <<refreshes, nodeVars, provVars, listerVars, pagVars>>
  /\ UNCHANGED <<pricingProvider, mu, onDemandUpdateTime, onDemandPrices, spotUpdateTime,
                 spotPrices, fargateUpdateTime, fargatePrice, now, refresh, reader, committed>>

(***************************************************************************)
(* The read accessors of the Repository, called by a metrics collection     *)
(***************************************************************************)
\* main registers the collector after its cold start returned; a direct caller of the
\* repository reads it once its first call is under way
Collecting == calls[1].pc \in {"returned", "direct"}

\* pr.mu.RLock() of an accessor (InstanceTypes, XLastUpdated, OnDemandPrice, FargatePrice,
\* SpotPrice)
RLock ==
  /\ process = "running"
  /\ Collecting
  /\ reader = "idle"
  /\ CanRLock
  /\ reader' = "rlocked"
  /\ mu' = [mu EXCEPT !.readers = mu.readers + 1]
  /\ UNCHANGED <<refreshes, nodeVars, provVars, listerVars, pagVars>>
  /\ UNCHANGED <<pricingProvider, onDemandUpdateTime, onDemandPrices, spotUpdateTime, spotPrices,
                 fargateUpdateTime, fargatePrice, now, process, calls, refresh, committed>>

\* the accessor returns, with the deferred pr.mu.RUnlock()
RUnlock ==
  /\ process = "running"
  /\ reader # "idle"
  /\ reader' = "idle"
  /\ mu' = [mu EXCEPT !.readers = mu.readers - 1]
  /\ UNCHANGED <<refreshes, nodeVars, provVars, listerVars, pagVars>>
  /\ UNCHANGED <<pricingProvider, onDemandUpdateTime, onDemandPrices, spotUpdateTime, spotPrices,
                 fargateUpdateTime, fargatePrice, now, process, calls, refresh, committed>>

(***************************************************************************)
(* Repository.InstanceTypes(), called by a goroutine of its own             *)
(***************************************************************************)
\* lo.Keys(m): the keys of the map in the order the iteration delivers them, which
\* Go leaves open
Keys(m) ==
  {f \in [1..Cardinality(DOMAIN m) -> DOMAIN m] :
     \A a, b \in 1..Cardinality(DOMAIN m) : f[a] = f[b] => a = b}

\* lo.Union(list1, list2): the elements of both lists in order, each one at its first
\* occurrence only
RECURSIVE Uniq(_, _)
Uniq(seen, list) ==
  IF list = <<>> THEN seen
  ELSE IF \E k \in 1..Len(seen) : seen[k] = Head(list)
       THEN Uniq(seen, Tail(list))
       ELSE Uniq(Append(seen, Head(list)), Tail(list))

Union(list1, list2) == Uniq(<<>>, list1 \o list2)

\* pr.mu.RLock()
InstanceTypesRLock ==
  /\ process = "running"
  /\ lister = "idle"
  /\ CanRLock
  /\ lister' = "rlocked"
  /\ mu' = [mu EXCEPT !.readers = mu.readers + 1]
  /\ UNCHANGED <<keys, types>>
  /\ UNCHANGED <<refreshes, nodeVars, provVars, pagVars>>
  /\ UNCHANGED <<pricingProvider, onDemandUpdateTime, onDemandPrices, spotUpdateTime, spotPrices,
                 fargateUpdateTime, fargatePrice, now, process, calls, refresh, reader, committed>>

\* the first argument of lo.Union is evaluated: lo.Keys(pr.onDemandPrices)
InstanceTypesKeys ==
  /\ process = "running"
  /\ lister = "rlocked"
  /\ lister' = "keys"
  /\ keys' \in Keys(onDemandPrices)
  /\ UNCHANGED types
  /\ UNCHANGED <<repoVars, refreshes, nodeVars, provVars, pagVars>>

\* mutant of InstanceTypesReturn: the two key lists are concatenated
InstanceTypesReturnConcat ==
  /\ process = "running"
  /\ lister = "keys"
  /\ lister' = "idle"
  /\ \E spotKeys \in Keys(spotPrices) : types' = keys \o spotKeys
  /\ keys' = <<>>
  /\ mu' = [mu EXCEPT !.readers = mu.readers - 1]
  /\ UNCHANGED <<refreshes, nodeVars, provVars, pagVars>>
  /\ UNCHANGED <<pricingProvider, onDemandUpdateTime, onDemandPrices, spotUpdateTime, spotPrices,
                 fargateUpdateTime, fargatePrice, now, process, calls, refresh, reader, committed>>

\* lo.Keys(pr.spotPrices) is evaluated, lo.Union returns and the deferred
\* pr.mu.RUnlock() runs
InstanceTypesReturn ==
  /\ process = "running"
  /\ lister = "keys"
  /\ lister' = "idle"
  /\ \E spotKeys \in Keys(spotPrices) : types' = Union(keys, spotKeys)
  /\ keys' = <<>>
  /\ mu' = [mu EXCEPT !.readers = mu.readers - 1]
  /\ UNCHANGED <<refreshes, nodeVars, provVars, pagVars>>
  /\ UNCHANGED <<pricingProvider, onDemandUpdateTime, onDemandPrices, spotUpdateTime, spotPrices,
                 fargateUpdateTime, fargatePrice, now, process, calls, refresh, reader, committed>>

(***************************************************************************)
(* One whole call of UpdateOnDemandPricing / UpdateSpotPricing /            *)
(* UpdateFargatePricing made directly on the repository, with no other      *)
(* goroutine running                                                        *)
(***************************************************************************)
UpdateCategoryPricing(c) ==
  /\ process = "running"
  /\ refreshes < MaxRefreshes
  /\ CanLock
  /\ refreshes' = refreshes + 1
  /\ priced' = FALSE /\ lookup' = Nil
  /\ \E r \in ProviderResults(pricingProvider, c) :
       IF r.panic
       THEN /\ process' = "panic"
            /\ UNCHANGED <<onDemandPrices, spotPrices, fargatePrice, onDemandUpdateTime,
                           spotUpdateTime, fargateUpdateTime, now, committed>>
       ELSE IF ReturnsEarly(r.err)
       THEN UNCHANGED <<onDemandPrices, spotPrices, fargatePrice, onDemandUpdateTime,
                        spotUpdateTime, fargateUpdateTime, now, committed, process>>
       ELSE /\ SetPrices(c, r.pricing)
            /\ SetUpdateTime(c, now)
            /\ now' = now + 1
            /\ committed' = [committed EXCEPT ![c] = <<r.pricing, now>>]
            /\ UNCHANGED process
  /\ UNCHANGED <<pricingProvider, mu, calls, refresh, reader>>
  /\ UNCHANGED <<labels, pods, used, Price, podOps, lastPrice, provVars, listerVars, pagVars>>

(***************************************************************************)
(* The point lookups of the Repository                                      *)
(***************************************************************************)
Found(price) == [price |-> price, ok |-> TRUE]
NotFound == [price |-> 0, ok |-> FALSE]

\* mutant of OnDemandPrice: the ok of the map lookup is ignored
OnDemandPriceIgnoringOk(instanceType) ==
  IF instanceType \notin DOMAIN onDemandPrices THEN Found(0)
  ELSE Found(onDemandPrices[instanceType])

OnDemandPrice(instanceType) ==
  IF instanceType \notin DOMAIN onDemandPrices THEN NotFound
  ELSE Found(onDemandPrices[instanceType])

\* mutant of FargatePrice: not found only when both unit rates are zero
FargatePriceBothZero(cpu, memory) ==
  IF fargatePrice.GBPerHour = 0 /\ fargatePrice.VCPUPerHour = 0 THEN NotFound
  ELSE Found(cpu * fargatePrice.VCPUPerHour + memory * fargatePrice.GBPerHour)

FargatePrice(cpu, memory) ==
  IF fargatePrice.GBPerHour = 0 \/ fargatePrice.VCPUPerHour = 0 THEN NotFound
  ELSE Found(cpu * fargatePrice.VCPUPerHour + memory * fargatePrice.GBPerHour)

\* mutant of SpotPrice: a missing zone falls back to another zone of the instance type
SpotPriceAnyZone(instanceType, zone) ==
  IF instanceType \in DOMAIN spotPrices
  THEN IF zone \in DOMAIN spotPrices[instanceType]
       THEN Found(spotPrices[instanceType][zone])
       ELSE IF DOMAIN spotPrices[instanceType] # {}
       THEN Found(spotPrices[instanceType][CHOOSE z \in DOMAIN spotPrices[instanceType] : TRUE])
       ELSE NotFound
  ELSE NotFound

SpotPrice(instanceType, zone) ==
  IF instanceType \in DOMAIN spotPrices
  THEN IF zone \in DOMAIN spotPrices[instanceType]
       THEN Found(spotPrices[instanceType][zone])
       ELSE NotFound
  ELSE NotFound

(***************************************************************************)
(* Node (pkg/model)                                                         *)
(***************************************************************************)
CapacityTypeLabel == "karpenter.sh/capacity-type"
EKSCapacityTypeLabel == "eks.amazonaws.com/capacityType"
ComputeTypeLabel == "eks.amazonaws.com/compute-type"
LabelInstanceTypeStable == "node.kubernetes.io/instance-type"
LabelTopologyZone == "topology.kubernetes.io/zone"

\* the label sets of the nodes of the inventory; "" is a label the node does not carry
\* (n.node.Labels[k] reads "" for it)
LabelValues(k) ==
  CASE k = CapacityTypeLabel -> {"", "on-demand", "spot"}
    [] k = EKSCapacityTypeLabel -> {"", "ON_DEMAND", "SPOT"}
    [] k = ComputeTypeLabel -> {"", "fargate"}
    [] k = LabelInstanceTypeStable -> {"m5.large", "c5.large"}
    [] k = LabelTopologyZone -> Zones
LabelKeys == {CapacityTypeLabel, EKSCapacityTypeLabel, ComputeTypeLabel, LabelInstanceTypeStable,
              LabelTopologyZone}
LabelSets == {l \in [LabelKeys -> UNION {LabelValues(k) : k \in LabelKeys}] :
                \A k \in LabelKeys : l[k] \in LabelValues(k)}
NoLabels == [k \in LabelKeys |-> IF k = LabelInstanceTypeStable THEN "m5.large"
                                 ELSE IF k = LabelTopologyZone THEN "us-east-1a" ELSE ""]

\* a pod: its provisioned Fargate shape (cpu, memory, ok) and its resource requests
Pod(ok, cpu, memory, requested) == [ok |-> ok, cpu |-> cpu, memory |-> memory, requested |-> requested]
PodKeys == 1..MaxPods
PodChoices == { Pod(TRUE, 1, 2, [rn \in {"cpu"} |-> 1]),
                Pod(FALSE, 0, 0, [rn \in {"cpu"} |-> 2]) }
FargateCapacityProvisioned(pod) == [cpu |-> pod.cpu, memory |-> pod.memory, ok |-> pod.ok]
Requested(pod) == pod.requested

\* NewNode(n)
NewNode(l) ==
  /\ labels = l
  /\ pods = EmptyMap
  /\ used = EmptyMap
  /\ Price = Float(0)

IsOnDemand == labels[CapacityTypeLabel] = "on-demand" \/ labels[EKSCapacityTypeLabel] = "ON_DEMAND"
IsSpot == labels[CapacityTypeLabel] = "spot" \/ labels[EKSCapacityTypeLabel] = "SPOT"
IsFargate == labels[ComputeTypeLabel] = "fargate"

NodeOnDemand == "on-demand"
NodeSpot == "spot"
NodeFargate == "fargate"
NodeUnknownCapacityType == ""

\* mutant of CapacityType: spot is tested before on-demand
CapacityTypeSpotFirst ==
  IF IsSpot THEN NodeSpot
  ELSE IF IsOnDemand THEN NodeOnDemand
  ELSE IF IsFargate THEN NodeFargate
  ELSE NodeUnknownCapacityType

CapacityType ==
  IF IsOnDemand THEN NodeOnDemand
  ELSE IF IsSpot THEN NodeSpot
  ELSE IF IsFargate THEN NodeFargate
  ELSE NodeUnknownCapacityType

\* Pods(): the pods of the map, in no particular order
Pods == {pods[k] : k \in DOMAIN pods}
NumPods == Cardinality(DOMAIN pods)
\* n.Pods()[0] of a node with one pod
OnlyPod == pods[CHOOSE k \in DOMAIN pods : TRUE]

\* fmt.Sprintf("%gvCPU-%gGB", cpu, mem)
ShapeName(cpu, mem) == ToString(cpu) \o "vCPU-" \o ToString(mem) \o "GB"

InstanceType ==
  IF IsFargate
  THEN IF NumPods = 1 /\ FargateCapacityProvisioned(OnlyPod).ok
       THEN ShapeName(FargateCapacityProvisioned(OnlyPod).cpu, FargateCapacityProvisioned(OnlyPod).memory)
       ELSE "Fargate"
  ELSE labels[LabelInstanceTypeStable]

Zone == labels[LabelTopologyZone]

HasPrice == FloatEq(Price, Price)

\* Node.Update(node)
Update(l) ==
  /\ process = "running"
  /\ labels' = l
  /\ priced' = FALSE /\ lookup' = Nil
  /\ UNCHANGED <<pods, used, Price, podOps, lastPrice>>
  /\ UNCHANGED <<repoVars, refreshes, provVars, listerVars, pagVars>>

Quantity(list, rn) == IF rn \in DOMAIN list THEN list[rn] ELSE 0

BindPod(key, pod) ==
  /\ process = "running"
  /\ podOps < MaxPodOps
  /\ podOps' = podOps + 1
  /\ LET alreadyBound == key \in DOMAIN pods IN
       /\ pods' = [k \in (DOMAIN pods) \cup {key} |-> IF k = key THEN pod ELSE pods[k]]
       /\ used' = IF ~alreadyBound
                  THEN [rn \in (DOMAIN used) \cup (DOMAIN Requested(pod)) |->
                          Quantity(used, rn) + Quantity(Requested(pod), rn)]
                  ELSE used
  /\ priced' = FALSE /\ lookup' = Nil
  /\ UNCHANGED <<labels, Price, lastPrice>>
  /\ UNCHANGED <<repoVars, refreshes, provVars, listerVars, pagVars>>

DeletePod(key) ==
  /\ process = "running"
  /\ podOps < MaxPodOps
  /\ podOps' = podOps + 1
  /\ IF key \in DOMAIN pods
     THEN /\ used' = [rn \in (DOMAIN used) \cup (DOMAIN Requested(pods[key])) |->
                        Quantity(used, rn) - Quantity(Requested(pods[key]), rn)]
          /\ pods' = [k \in (DOMAIN pods) \ {key} |-> pods[k]]
     ELSE UNCHANGED <<pods, used>>
  /\ priced' = FALSE /\ lookup' = Nil
  /\ UNCHANGED <<labels, Price, lastPrice>>
  /\ UNCHANGED <<repoVars, refreshes, provVars, listerVars, pagVars>>

\* the price a lookup result leaves in n.Price, which UpdatePrice first set to NaN
PriceOf(r) == IF r.ok THEN Float(r.price) ELSE NaN

\* mutant of UpdatePrice: n.Price is not reset to NaN before the lookup
UpdatePriceKeepingPrice ==
  /\ process = "running"
  /\ CanRLock
  /\ LET r == IF IsOnDemand THEN OnDemandPrice(InstanceType)
              ELSE IF IsSpot THEN SpotPrice(InstanceType, Zone)
              ELSE IF IsFargate /\ NumPods = 1 /\ FargateCapacityProvisioned(OnlyPod).ok
              THEN FargatePrice(FargateCapacityProvisioned(OnlyPod).cpu,
                                FargateCapacityProvisioned(OnlyPod).memory)
              ELSE NotFound
     IN Price' = IF r.ok THEN Float(r.price) ELSE Price
  /\ lookup' = IF IsOnDemand THEN "OnDemand"
               ELSE IF IsSpot THEN "Spot"
               ELSE IF IsFargate /\ NumPods = 1 /\ FargateCapacityProvisioned(OnlyPod).ok
               THEN "Fargate"
               ELSE Nil
  /\ priced' = TRUE
  /\ lastPrice' = Price
  /\ UNCHANGED <<labels, pods, used, podOps>>
  /\ UNCHANGED <<repoVars, refreshes, provVars, listerVars, pagVars>>

\* mutant of UpdatePrice: a Fargate node with several pods is priced from one of them
UpdatePriceFromAnyPod ==
  /\ process = "running"
  /\ CanRLock
  /\ Price' = IF IsOnDemand THEN PriceOf(OnDemandPrice(InstanceType))
              ELSE IF IsSpot THEN PriceOf(SpotPrice(InstanceType, Zone))
              ELSE IF IsFargate /\ NumPods >= 1
              THEN LET shape == FargateCapacityProvisioned(OnlyPod) IN
                   IF shape.ok THEN PriceOf(FargatePrice(shape.cpu, shape.memory)) ELSE NaN
              ELSE NaN
  /\ lookup' = IF IsOnDemand THEN "OnDemand"
               ELSE IF IsSpot THEN "Spot"
               ELSE IF IsFargate /\ NumPods >= 1 /\ FargateCapacityProvisioned(OnlyPod).ok
               THEN "Fargate"
               ELSE Nil
  /\ priced' = TRUE
  /\ lastPrice' = Price
  /\ UNCHANGED <<labels, pods, used, podOps>>
  /\ UNCHANGED <<repoVars, refreshes, provVars, listerVars, pagVars>>

\* mutant of UpdatePrice: the resolver tests the compute-type label first
UpdatePriceFargateFirst ==
  /\ process = "running"
  /\ CanRLock
  /\ Price' = IF IsFargate /\ NumPods = 1
              THEN LET shape == FargateCapacityProvisioned(OnlyPod) IN
                   IF shape.ok THEN PriceOf(FargatePrice(shape.cpu, shape.memory)) ELSE NaN
              ELSE IF IsOnDemand THEN PriceOf(OnDemandPrice(InstanceType))
              ELSE IF IsSpot THEN PriceOf(SpotPrice(InstanceType, Zone))
              ELSE NaN
  /\ lookup' = IF IsFargate /\ NumPods = 1
               THEN IF FargateCapacityProvisioned(OnlyPod).ok THEN "Fargate" ELSE Nil
               ELSE IF IsOnDemand THEN "OnDemand"
               ELSE IF IsSpot THEN "Spot"
               ELSE Nil
  /\ priced' = TRUE
  /\ lastPrice' = Price
  /\ UNCHANGED <<labels, pods, used, podOps>>
  /\ UNCHANGED <<repoVars, refreshes, provVars, listerVars, pagVars>>

\* n.Price = math.NaN(), then the lookup of the first branch whose test holds
UpdatePrice ==
  /\ process = "running"
  /\ CanRLock
  /\ Price' = IF IsOnDemand THEN PriceOf(OnDemandPrice(InstanceType))
              ELSE IF IsSpot THEN PriceOf(SpotPrice(InstanceType, Zone))
              ELSE IF IsFargate /\ NumPods = 1
              THEN LET shape == FargateCapacityProvisioned(OnlyPod) IN
                   IF shape.ok THEN PriceOf(FargatePrice(shape.cpu, shape.memory)) ELSE NaN
              ELSE NaN
  /\ lookup' = IF IsOnDemand THEN "OnDemand"
               ELSE IF IsSpot THEN "Spot"
               ELSE IF IsFargate /\ NumPods = 1 /\ FargateCapacityProvisioned(OnlyPod).ok
               THEN "Fargate"
               ELSE Nil
  /\ priced' = TRUE
  /\ lastPrice' = Price
  /\ UNCHANGED <<labels, pods, used, podOps>>
  /\ UNCHANGED <<repoVars, refreshes, provVars, listerVars, pagVars>>

(***************************************************************************)
(* Paginator (pkg/k8spaginator)                                             *)
(***************************************************************************)
\* a continuation token is written as a number: 0 is the empty string, k > 0 is the
\* token that asks for the page after page k
NoToken == 0

\* a list function that serves a chain of pages: called with the token of page k it
\* returns the items of page k + 1 and that page's token, which is empty on the last
\* page; a page that fails returns an error
listFunc(pages, token) ==
  LET k == token + 1 IN
    IF pages[k].fails THEN [items |-> <<>>, cont |-> NoToken, err |-> "list error"]
    ELSE [items |-> pages[k].items, cont |-> IF k < Len(pages) THEN k ELSE NoToken, err |-> Nil]

\* the pages of a chain
ChainPageSet == {Page(<<>>), Page(<<"a">>), Page(<<"b">>), Page(<<"a", "b">>), PageErr}

Chains == UNION {[1..n -> ChainPageSet] : n \in 1..MaxChain}

\* New(listFunc)
NewPaginator(pages) ==
  /\ chain = pages
  /\ cont = NoToken /\ got = <<>> /\ tokens = <<>> /\ returned = <<>> /\ getPc = "idle"

\* Get is called: result := make([]V, 0); var cont string
GetCall ==
  /\ getPc = "idle"
  /\ getPc' = "loop"
  /\ got' = <<>>
  /\ cont' = NoToken
  /\ UNCHANGED <<chain, tokens, returned>>
  /\ UNCHANGED <<repoVars, refreshes, nodeVars, provVars, listerVars>>

\* one pass of the loop. "items, cont, err := p.listFunc(ctx, cont)" declares items,
\* cont and err anew in the loop body: the argument is the cont declared before the
\* loop, the token returned goes to the new cont, which the test "cont == \"\"" reads
\* and which is gone at the end of the pass
GetLoop ==
  /\ getPc = "loop"
  /\ Len(tokens) < MaxListCalls
  /\ LET r == listFunc(chain, cont) IN
       /\ tokens' = Append(tokens, cont)
       /\ returned' = Append(returned, r.cont)
       /\ IF r.err # Nil
          THEN getPc' = "failed" /\ UNCHANGED got
          ELSE /\ got' = got \o r.items
               /\ getPc' = IF r.cont = NoToken THEN "returned" ELSE "loop"
  /\ UNCHANGED <<chain, cont>>
  /\ UNCHANGED <<repoVars, refreshes, nodeVars, provVars, listerVars>>

(***************************************************************************)
(* The program: main's cold start, the admin handler, the hourly loop, the  *)
(* refresh goroutines and a metrics collection reading the repository       *)
(***************************************************************************)
\* no Provider method has been called on its own
NoFetch == method = Nil /\ feed = <<>> /\ result = Ok(EmptyMap)

\* no goroutine is inside InstanceTypes()
NoLister == lister = "idle" /\ keys = <<>> /\ types = <<>>

\* no Paginator has been built
NoGet == chain = <<>> /\ cont = NoToken /\ got = <<>> /\ tokens = <<>> /\ returned = <<>> /\ getPc = "idle"

Init ==
  /\ RepoInit
  /\ refreshes = 0
  /\ NewNode(NoLabels) /\ podOps = 0 /\ priced = FALSE /\ lastPrice = Float(0) /\ lookup = Nil
  /\ NoFetch /\ NoLister /\ NoGet

Next ==
  \/ \E i \in CallIds : UpdatePricingStart(i)
  \/ \E i \in CallIds : UpdatePricingReturn(i)
  \/ \E i \in CallIds : UpdateOnDemandPricing(i)
  \/ \E i \in CallIds : UpdateSpotPricing(i)
  \/ \E i \in CallIds : UpdateFargatePricing(i)
  \/ \E i \in CallIds, c \in Categories : AppendErr(<<i, c>>)
  \/ RLock
  \/ RUnlock

Spec == Init /\ [][Next]_vars

(***************************************************************************)
(* The repository used directly: goroutines that call the single-category   *)
(* refreshes concurrently, and a reader                                     *)
(***************************************************************************)
RefreshNext ==
  \/ \E i \in CallIds, c \in Categories : CallDirect(i, c)
  \/ \E i \in CallIds : UpdateOnDemandPricing(i)
  \/ \E i \in CallIds : UpdateSpotPricing(i)
  \/ \E i \in CallIds : UpdateFargatePricing(i)
  \/ RLock
  \/ RUnlock
  \/ InstanceTypesRLock
  \/ InstanceTypesKeys
  \/ InstanceTypesReturn

RefreshSpec == Init /\ [][RefreshNext]_vars

(***************************************************************************)
(* The node model over a repository refreshed one category at a time: the   *)
(* methods of Node and of Repository called one after the other             *)
(***************************************************************************)
NodeInit ==
  /\ RepoInit
  /\ refreshes = 0
  /\ \E l \in LabelSets : NewNode(l)
  /\ podOps = 0 /\ priced = FALSE /\ lastPrice = Float(0) /\ lookup = Nil
  /\ NoFetch /\ NoLister /\ NoGet

NodeNext ==
  \/ \E c \in Categories : UpdateCategoryPricing(c)
  \/ \E l \in LabelSets : Update(l)
  \/ \E key \in PodKeys, pod \in PodChoices : BindPod(key, pod)
  \/ \E key \in PodKeys : DeletePod(key)
  \/ UpdatePrice

NodeSpec == NodeInit /\ [][NodeNext]_vars

(***************************************************************************)
(* Classification and price lookup of nodes that host no pod                *)
(***************************************************************************)
LookupNext ==
  \/ \E c \in Categories : UpdateCategoryPricing(c)
  \/ \E l \in LabelSets : Update(l)
  \/ UpdatePrice

LookupSpec == NodeInit /\ [][LookupNext]_vars

(***************************************************************************)
(* Serverless pricing: a node of any classification, the pods bound to it   *)
(* and the Fargate refresh of the repository                                *)
(***************************************************************************)
\* the label sets that differ in the three classification labels only
ClassLabelSets ==
  {l \in LabelSets : l[LabelInstanceTypeStable] = NoLabels[LabelInstanceTypeStable]
                      /\ l[LabelTopologyZone] = NoLabels[LabelTopologyZone]}

FargateInit ==
  /\ RepoInit
  /\ refreshes = 0
  /\ \E l \in ClassLabelSets : NewNode(l)
  /\ podOps = 0 /\ priced = FALSE /\ lastPrice = Float(0) /\ lookup = Nil
  /\ NoFetch /\ NoLister /\ NoGet

FargateNext ==
  \/ UpdateCategoryPricing("Fargate")
  \/ \E key \in PodKeys, pod \in PodChoices : BindPod(key, pod)
  \/ \E key \in PodKeys : DeletePod(key)
  \/ UpdatePrice

FargateSpec == FargateInit /\ [][FargateNext]_vars

(***************************************************************************)
(* One call of a method of AWSProvider on its own, over the pages the       *)
(* external sources deliver (the provider keeps no state between calls)     *)
(***************************************************************************)
FetchOnDemand ==
  /\ method = Nil
  /\ \E shared, metal \in Feeds(OnDemandPageSet) :
       /\ method' = "OnDemand"
       /\ feed' = <<shared, metal>>
       /\ result' = GetOnDemandPricing(fetchOnDemandPricing(shared), fetchOnDemandPricing(metal))
  /\ UNCHANGED <<repoVars, refreshes, nodeVars, listerVars, pagVars>>

FetchSpot ==
  /\ method = Nil
  /\ \E pages \in Feeds(SpotPageSet) :
       /\ method' = "Spot"
       /\ feed' = pages
       /\ result' = GetSpotPricing(pages)
  /\ UNCHANGED <<repoVars, refreshes, nodeVars, listerVars, pagVars>>

FetchFargate ==
  /\ method = Nil
  /\ \E pages \in Feeds(FargatePageSet) :
       /\ method' = "Fargate"
       /\ feed' = pages
       /\ result' = GetFargatePricing(pages)
  /\ UNCHANGED <<repoVars, refreshes, nodeVars, listerVars, pagVars>>

ProviderNext == FetchOnDemand \/ FetchSpot \/ FetchFargate

ProviderSpec == Init /\ [][ProviderNext]_vars

(***************************************************************************)
(* One call of Paginator.Get over a list function that serves a chain       *)
(***************************************************************************)
PaginatorInit ==
  /\ RepoInit
  /\ refreshes = 0
  /\ NewNode(NoLabels) /\ podOps = 0 /\ priced = FALSE /\ lastPrice = Float(0) /\ lookup = Nil
  /\ NoFetch /\ NoLister
  /\ \E pages \in Chains : NewPaginator(pages)

PaginatorNext == GetCall \/ GetLoop

PaginatorSpec == PaginatorInit /\ [][PaginatorNext]_vars

(***************************************************************************)
(* Properties                                                               *)
(***************************************************************************)
Workers == CallIds \X Categories
Elems(seq) == {seq[k] : k \in 1..Len(seq)}

\* the refresh w has finished: it installed its table and timestamp, or it failed
Finished(w) == refresh[w].pc = "done"
\* the provider fetch of w returned an error
FetchFailed(w) == refresh[w].pc \in {"appending", "done"} /\ refresh[w].err # Nil
\* the provider fetch of w returned a value
FetchSucceeded(w) == refresh[w].pc \in {"fetched", "locked", "done"} /\ refresh[w].err = Nil

\* the table of category c holds at least one price (Fargate: both unit rates are set)
NonEmpty(c, table) ==
  IF c = "Fargate" THEN table.VCPUPerHour # 0 /\ table.GBPerHour # 0
  ELSE Cardinality(DOMAIN table) # 0

\* C1: when UpdatePricing has returned, each of the three refreshes it started has
\* finished (installed its table and timestamp, or failed)
C1_ReturnsAfterAllRefreshes ==
  \A i \in CallIds :
    calls[i].pc = "returned" => \A c \in Categories : Finished(<<i, c>>)

\* C2: the error UpdatePricing returned contains the error of every category that
\* failed, and it is nil only when all three succeeded (stated for the invocations
\* whose three refreshes have finished)
C2_CombinedErrorIsComplete ==
  \A i \in CallIds :
    (calls[i].pc = "returned" /\ \A c \in Categories : Finished(<<i, c>>)) =>
      /\ \A c \in Categories :
           refresh[<<i, c>>].err # Nil => refresh[<<i, c>>].err \in Elems(calls[i].ret)
      /\ calls[i].ret = <<>> => \A c \in Categories : refresh[<<i, c>>].err = Nil

\* C3: the failure of one category never keeps another from installing: a refresh
\* whose fetch succeeded is never left with its table not installed when the process
\* has stopped
C3_SucceededFetchIsInstalled ==
  process # "running" => \A w \in Workers : FetchSucceeded(w) => Finished(w)

\* C4: a refresh whose provider fetch returned an error returns that error (it is the
\* one appended to errs) and never writes its category's table or timestamp
C4_FailedRefreshKeepsTable ==
  [][\A w \in Workers :
       (refresh'[w] # refresh[w] /\ refresh'[w].err # Nil) =>
         /\ refresh'[w].pc \in {"appending", "done"}
         /\ Table(w[2])' = Table(w[2])
         /\ UpdateTime(w[2])' = UpdateTime(w[2])
         /\ refresh'[w].err \in {r.err : r \in ProviderResults(pricingProvider, w[2])}
         /\ (refresh[w].pc = "appending" /\ refresh'[w].pc = "done") =>
              calls'[w[1]].errs[Len(calls'[w[1]].errs)] = refresh[w].err]_vars

\* C4 witness: a refresh failed and finished while its category keeps the table and
\* timestamp an earlier refresh installed
C4_Witness ==
  \E w \in Workers :
    /\ Finished(w) /\ refresh[w].err # Nil
    /\ UpdateTime(w[2]) > 0 /\ NonEmpty(w[2], Table(w[2]))
    /\ <<Table(w[2]), UpdateTime(w[2])>> = committed[w[2]]

\* C5: every successful refresh leaves its category's timestamp strictly greater than
\* before and a non-empty table (Fargate: both unit rates non-zero), with the Static
\* and with the Live provider
C5_SuccessfulRefreshNonEmpty ==
  [][\A w \in Workers :
       (refresh[w].pc = "locked" /\ refresh'[w].pc = "done") =>
         /\ UpdateTime(w[2])' > UpdateTime(w[2])
         /\ NonEmpty(w[2], Table(w[2])')]_vars

\* C6: whenever a reader is inside an accessor, every category's (table, timestamp) is
\* a pair one refresh installed as a whole (or the initial pair), and a table is always
\* the initial one or the whole result of one fetch
C6_AtomicReplacement ==
  /\ reader = "rlocked" =>
       \A c \in Categories : <<Table(c), UpdateTime(c)>> = committed[c]
  /\ \A c \in Categories :
       \/ Table(c) = ZeroPricing(c) /\ UpdateTime(c) = 0
       \/ \E i \in CallIds : /\ FetchSucceeded(<<i, c>>)
                             /\ refresh[<<i, c>>].pricing = Table(c)

\* C6 witness: a reader is inside an accessor after a refresh installed a category,
\* while another refresh of that category has fetched and waits for the lock
C6_Witness ==
  /\ reader = "rlocked"
  /\ \E c \in Categories, i \in CallIds :
       /\ UpdateTime(c) > 0
       /\ refresh[<<i, c>>].pc = "fetched"

\* C7: no step of a refresh of one category changes the table or the timestamp of
\* another category
C7_OtherCategoriesUnchanged ==
  [][\A w \in Workers :
       (refresh'[w] # refresh[w] /\ refresh[w].pc # "idle") =>
         \A d \in Categories \ {w[2]} :
           Table(d)' = Table(d) /\ UpdateTime(d)' = UpdateTime(d)]_vars

\* C7 witness: one category's refresh succeeded and another's failed, both finished,
\* and the third category is still as the repository was created
C7_Witness ==
  \E i, j \in CallIds, c, d, e \in Categories :
    /\ c # d /\ d # e /\ c # e
    /\ Finished(<<i, c>>) /\ refresh[<<i, c>>].err = Nil /\ UpdateTime(c) > 0
    /\ Finished(<<j, d>>) /\ refresh[<<j, d>>].err # Nil /\ UpdateTime(d) = 0
    /\ UpdateTime(e) = 0 /\ Table(e) = ZeroPricing(e)

\* the labels of the three classification keys that the node carries
CarriedLabels == {k \in {CapacityTypeLabel, EKSCapacityTypeLabel, ComputeTypeLabel} : labels[k] # ""}
SaysOnDemand == labels[CapacityTypeLabel] = "on-demand" \/ labels[EKSCapacityTypeLabel] = "ON_DEMAND"
SaysSpot == labels[CapacityTypeLabel] = "spot" \/ labels[EKSCapacityTypeLabel] = "SPOT"
SaysFargate == labels[ComputeTypeLabel] = "fargate"

\* C8: CapacityType is OnDemand if either capacity-type label says on-demand, else Spot
\* if either says spot, else Fargate if the compute-type label says fargate, else
\* Unknown; a node with exactly one recognised label satisfies exactly one of
\* IsOnDemand/IsSpot/IsFargate and a node with none satisfies none
C8_ClassifierPrecedence ==
  /\ SaysOnDemand => CapacityType = "on-demand"
  /\ (~SaysOnDemand /\ SaysSpot) => CapacityType = "spot"
  /\ (~SaysOnDemand /\ ~SaysSpot /\ SaysFargate) => CapacityType = "fargate"
  /\ (~SaysOnDemand /\ ~SaysSpot /\ ~SaysFargate) => CapacityType = ""
  /\ Cardinality(CarriedLabels) = 1 =>
       Cardinality({b \in {<<1, IsOnDemand>>, <<2, IsSpot>>, <<3, IsFargate>>} : b[2]}) = 1
  /\ CarriedLabels = {} => (~IsOnDemand /\ ~IsSpot /\ ~IsFargate)

\* C8 witness: a node carrying an on-demand label of one scheme, a spot label of the
\* other and the fargate compute-type label has been priced
C8_Witness ==
  /\ priced
  /\ labels[CapacityTypeLabel] = "spot" /\ labels[EKSCapacityTypeLabel] = "ON_DEMAND"
  /\ labels[ComputeTypeLabel] = "fargate"

\* the instance types a lookup is asked for
LookupTypes == InstanceTypes \cup {"c5.large", "Fargate", ShapeName(1, 2)}
\* the table the last successful refresh of a category installed
Installed(c) == committed[c][1]

\* C9: SpotPrice(instanceType, zone) is (price, true) exactly when the installed spot
\* table has that very pair, else (0, false), whatever other zones of the type or the
\* on-demand table hold; a Spot node whose pair is absent is priced unknown
C9_SpotExactPair ==
  /\ \A it \in LookupTypes, z \in Zones :
       LET has == it \in DOMAIN Installed("Spot") /\ z \in DOMAIN Installed("Spot")[it] IN
         /\ has => SpotPrice(it, z) = [price |-> Installed("Spot")[it][z], ok |-> TRUE]
         /\ ~has => SpotPrice(it, z) = [price |-> 0, ok |-> FALSE]
  /\ (/\ priced
      /\ CapacityType = "spot"
      /\ ~(InstanceType \in DOMAIN Installed("Spot") /\ Zone \in DOMAIN Installed("Spot")[InstanceType]))
       => Price = NaN

\* C9 witness: a Spot node was priced unknown in a zone the spot table lacks, while the
\* table has another zone of its instance type and the on-demand table has the type
C9_Witness ==
  /\ priced /\ CapacityType = "spot" /\ Price = NaN
  /\ InstanceType \in DOMAIN spotPrices
  /\ Zone \notin DOMAIN spotPrices[InstanceType]
  /\ InstanceType \in DOMAIN onDemandPrices

\* C10: OnDemandPrice(instanceType) is (table[instanceType], true) for the keys of the
\* installed on-demand table and (0, false) for every other type, also before any
\* refresh has succeeded
C10_OnDemandLookup ==
  /\ \A it \in LookupTypes :
       /\ it \in DOMAIN Installed("OnDemand") =>
            OnDemandPrice(it) = [price |-> Installed("OnDemand")[it], ok |-> TRUE]
       /\ it \notin DOMAIN Installed("OnDemand") => OnDemandPrice(it) = [price |-> 0, ok |-> FALSE]
  /\ onDemandUpdateTime = 0 => \A it \in LookupTypes : ~OnDemandPrice(it).ok

\* C10 witness: an on-demand node was priced from an installed table that has its type
\* and lacks another type
C10_Witness ==
  /\ priced /\ CapacityType = "on-demand"
  /\ onDemandUpdateTime > 0
  /\ OnDemandPrice(InstanceType).ok /\ Price = Float(onDemandPrices[InstanceType])
  /\ ~OnDemandPrice("c5.large").ok

\* the (cpu, memory) shapes a Fargate lookup is asked for
LookupShapes == {<<0, 0>>, <<1, 2>>, <<2, 4>>}

\* C11: FargatePrice(cpu, memory) is (0, false) whenever a unit rate of the installed
\* Fargate price is zero, also before any Fargate refresh has succeeded, and else
\* (cpu * VCPUPerHour + memory * GBPerHour, true); a Fargate node with one pod of a
\* known shape is priced by it
C11_FargateLookup ==
  LET rates == Installed("Fargate")
      Expected(cpu, memory) ==
        IF rates.VCPUPerHour = 0 \/ rates.GBPerHour = 0 THEN [price |-> 0, ok |-> FALSE]
        ELSE [price |-> cpu * rates.VCPUPerHour + memory * rates.GBPerHour, ok |-> TRUE]
  IN /\ \A sh \in LookupShapes : FargatePrice(sh[1], sh[2]) = Expected(sh[1], sh[2])
     /\ fargateUpdateTime = 0 => \A sh \in LookupShapes : ~FargatePrice(sh[1], sh[2]).ok
     /\ (priced /\ CapacityType = "fargate" /\ NumPods = 1 /\ OnlyPod.ok) =>
          Price = IF Expected(OnlyPod.cpu, OnlyPod.memory).ok
                  THEN Float(Expected(OnlyPod.cpu, OnlyPod.memory).price) ELSE NaN

\* C11 witness: a Fargate node with one pod of shape (1, 2) was priced from the two
\* installed unit rates
C11_Witness ==
  /\ priced /\ CapacityType = "fargate" /\ NumPods = 1 /\ OnlyPod.ok
  /\ fargateUpdateTime > 0
  /\ fargatePrice = NewFargatePrice(40480, 4445)
  /\ Price = Float(1 * 40480 + 2 * 4445)

\* C12: a Fargate-classified node that UpdatePrice has just priced has a price only if
\* it hosts exactly one pod and that pod has a provisioned shape: with no pod, with two
\* or more pods, or with a pod without a shape its price is unknown
C12_FargateOnePod ==
  (priced /\ CapacityType = "fargate") =>
    /\ NumPods = 0 => Price = NaN
    /\ NumPods >= 2 => Price = NaN
    /\ (NumPods = 1 /\ ~OnlyPod.ok) => Price = NaN
    /\ HasPrice => (NumPods = 1 /\ OnlyPod.ok)

\* C12 witness: a Fargate node with two pods, one of them with a shape, was priced
\* unknown while both unit rates are installed
C12_Witness ==
  /\ priced /\ CapacityType = "fargate" /\ NumPods = 2
  /\ \E k \in DOMAIN pods : pods[k].ok
  /\ fargatePrice.VCPUPerHour # 0 /\ fargatePrice.GBPerHour # 0
  /\ Price = NaN

\* the lookup UpdatePrice selects for the node's category finds a price in the installed
\* tables
LookupFinds ==
  CASE CapacityType = "on-demand" -> InstanceType \in DOMAIN Installed("OnDemand")
    [] CapacityType = "spot" ->
         InstanceType \in DOMAIN Installed("Spot") /\ Zone \in DOMAIN Installed("Spot")[InstanceType]
    [] CapacityType = "fargate" ->
         /\ NumPods = 1 /\ OnlyPod.ok
         /\ Installed("Fargate").VCPUPerHour # 0 /\ Installed("Fargate").GBPerHour # 0
    [] OTHER -> FALSE

C14_SchemaErrorNotFatal == process # "panic"

\* C15: a fetch of any category that returns without error returns at least one price
\* (Fargate: both unit rates), never an empty result
C15_EmptyFetchFails ==
  (method # Nil /\ ~result.panic /\ result.err = Nil) => NonEmpty(method, result.pricing)

\* C16: when an on-demand refresh installs the same table content that the previous
\* refresh installed, the cached table is equal to what it was after that refresh and
\* the on-demand timestamp advances
C16_RefreshIdempotent ==
  [][\A i \in CallIds :
       LET w == <<i, "OnDemand">> IN
         (/\ refresh[w].pc = "locked" /\ refresh'[w].pc = "done"
          /\ committed["OnDemand"][2] > 0
          /\ refresh[w].pricing = committed["OnDemand"][1]) =>
           /\ onDemandPrices' = committed["OnDemand"][1]
           /\ onDemandUpdateTime' > onDemandUpdateTime
           /\ onDemandUpdateTime' > committed["OnDemand"][2]]_vars

\* C16 witness: two on-demand refreshes fetched the same table and both installed it
C16_Witness ==
  \E i, j \in CallIds :
    /\ i # j
    /\ Finished(<<i, "OnDemand">>) /\ refresh[<<i, "OnDemand">>].err = Nil
    /\ Finished(<<j, "OnDemand">>) /\ refresh[<<j, "OnDemand">>].err = Nil
    /\ refresh[<<i, "OnDemand">>].pricing = refresh[<<j, "OnDemand">>].pricing
    /\ onDemandPrices = refresh[<<i, "OnDemand">>].pricing
    /\ onDemandUpdateTime > 1

\* the refresh w holds the write lock
HoldsLock(w) == mu.writer # Nil /\ mu.writer = w

\* C17: the write lock is held only by a refresh whose fetch has returned without error
\* and which is swapping table and timestamp, never by one that is fetching; a lookup
\* can take the read lock whenever no refresh is inside that swap, however many fetches
\* are outstanding; and no state of refreshes and lookups is a deadlock
C17_NoLockDuringFetch ==
  /\ \A w \in Workers :
       /\ HoldsLock(w) => (refresh[w].pc = "locked" /\ refresh[w].err = Nil)
       /\ refresh[w].pc \in {"fetching", "fetched"} => ~HoldsLock(w)
  /\ (process = "running" /\ Collecting /\ reader = "idle"
       /\ \A w \in Workers : refresh[w].pc # "locked") => ENABLED RLock
  /\ (process = "running" /\ reader = "rlocked") => ENABLED RUnlock
  /\ (process = "running" /\ \E w \in Workers : refresh[w].pc \in {"fetching", "fetched", "locked"})
       => ENABLED RefreshNext

\* C17 witness: a lookup holds the read lock while one refresh is still fetching and
\* another one has fetched and waits for the lock
C17_Witness ==
  /\ reader = "rlocked"
  /\ \E v, w \in Workers : refresh[v].pc = "fetching" /\ refresh[w].pc = "fetched"

\* the records of all pages of a feed, in feed order
RECURSIVE Records(_)
Records(pages) == IF pages = <<>> THEN <<>> ELSE Head(pages).items \o Records(Tail(pages))

\* a query of the on-demand fetch ran through: no page failed and every record decoded
RanThrough(pages) ==
  /\ \A n \in 1..Len(pages) : ~pages[n].fails
  /\ \A n \in 1..Len(Records(pages)) : Records(pages)[n].decodes

\* the instance types for which a query delivered a usable entry: a record with an
\* instance type and a price that parses and is not zero
UsableTypes(pages) ==
  {Records(pages)[n].InstanceType : n \in
     {m \in 1..Len(Records(pages)) :
        /\ Records(pages)[m].decodes
        /\ Records(pages)[m].InstanceType # ""
        /\ \E d \in 1..Len(Records(pages)[m].USD) :
             Records(pages)[m].USD[d].parses /\ Records(pages)[m].USD[d].val # 0}}

\* C18: GetOnDemandPricing returns an error whenever the shared-tenancy query or the
\* bare-metal query delivered no usable entry, also when the other one delivered
\* prices; a table is returned only when both delivered some
C18_EitherQueryEmptyFails ==
  method = "OnDemand" =>
    /\ (UsableTypes(feed[1]) = {} \/ UsableTypes(feed[2]) = {}) => result.err # Nil
    /\ result.err = Nil => (UsableTypes(feed[1]) # {} /\ UsableTypes(feed[2]) # {})
    /\ result.err # Nil => result.pricing = EmptyMap

\* C18 witness: both queries ran through, the shared-tenancy one delivered a price, the
\* bare-metal one no usable entry, and the fetch failed
C18_Witness ==
  /\ method = "OnDemand"
  /\ RanThrough(feed[1]) /\ RanThrough(feed[2])
  /\ UsableTypes(feed[1]) # {} /\ UsableTypes(feed[2]) = {}
  /\ result.err = "no on-demand pricing found"

\* C19: the table GetOnDemandPricing returns has exactly the keys of the two query
\* results together; a key of one result only has that result's price, a key of both
\* has the price of the bare-metal result, and a collision is no error
C19_MergeLastWriteWins ==
  /\ (method = "OnDemand" /\ result.err = Nil) =>
       LET shared == fetchOnDemandPricing(feed[1]).pricing
           metal == fetchOnDemandPricing(feed[2]).pricing
       IN /\ DOMAIN result.pricing = (DOMAIN shared) \cup (DOMAIN metal)
          /\ DOMAIN shared = UsableTypes(feed[1]) /\ DOMAIN metal = UsableTypes(feed[2])
          /\ \A k \in (DOMAIN shared) \ (DOMAIN metal) : result.pricing[k] = shared[k]
          /\ \A k \in DOMAIN metal : result.pricing[k] = metal[k]
  /\ (method = "OnDemand" /\ RanThrough(feed[1]) /\ RanThrough(feed[2])
       /\ UsableTypes(feed[1]) # {} /\ UsableTypes(feed[2]) # {}) => result.err = Nil

\* C19 witness: the two query results collide on a key with different prices, the
\* shared-tenancy result has a key of its own, and the merged table has the bare-metal
\* price for the colliding key
C19_Witness ==
  /\ method = "OnDemand" /\ result.err = Nil
  /\ LET shared == fetchOnDemandPricing(feed[1]).pricing
         metal == fetchOnDemandPricing(feed[2]).pricing
     IN /\ \E k \in (DOMAIN shared) \cap (DOMAIN metal) :
             shared[k] # metal[k] /\ result.pricing[k] = metal[k]
        /\ (DOMAIN shared) \ (DOMAIN metal) # {}

\* a usable spot record: its price parses as a non-negative number and it has an
\* observation timestamp
UsableSpot(sph) == sph.SpotPrice.parses /\ sph.SpotPrice.val >= 0 /\ sph.Timestamp

\* the positions of the usable records of a pair in a feed
UsableAt(pages, it, az) ==
  {n \in 1..Len(Records(pages)) :
     /\ UsableSpot(Records(pages)[n])
     /\ Records(pages)[n].InstanceType = it
     /\ Records(pages)[n].AvailabilityZone = az}

Last(S) == CHOOSE n \in S : \A m \in S : m <= n

\* C20: the table GetSpotPricing returns has exactly the (instance type, zone) pairs
\* with a usable record in the feed, each with the price of its last usable record in
\* feed order; records with an unparseable price or no timestamp add nothing and do
\* not fail the fetch
C20_SpotTableOfUsableRecords ==
  /\ (method = "Spot" /\ result.err = Nil) =>
       \A it \in InstanceTypes, az \in Zones :
         LET at == UsableAt(feed, it, az)
             has == it \in DOMAIN result.pricing /\ az \in DOMAIN result.pricing[it]
         IN /\ has <=> at # {}
            /\ has => result.pricing[it][az] = Records(feed)[Last(at)].SpotPrice.val
  /\ (/\ method = "Spot"
      /\ \A n \in 1..Len(feed) : ~feed[n].fails
      /\ \E it \in InstanceTypes, az \in Zones : UsableAt(feed, it, az) # {}) => result.err = Nil

\* a record of the EKS price list identified as relevant whose usage type has neither
\* the vCPU-Hours nor the GB-Hours marker
Unrecognised(pItem) ==
  /\ pItem.decodes
  /\ "Fargate" \in pItem.UsageType
  /\ "vCPU-Hours" \notin pItem.UsageType /\ "GB-Hours" \notin pItem.UsageType

\* C21: a Fargate fetch whose price list holds a relevant record with neither unit
\* marker does not return without error, whatever the price dimensions of that
\* record are (absent, unparseable or zero included)
C21_UnrecognisedRecordFails ==
  (/\ method = "Fargate"
   /\ \E n \in 1..Len(Records(feed)) : Unrecognised(Records(feed)[n]))
    => (result.panic \/ result.err # Nil)

\* C22: InstanceTypes() holds the read lock, no writer inside, from before it reads
\* the on-demand keys until it returns, and the list it returns has exactly the keys
\* of the installed on-demand table and of the installed spot table, each one once
C22_InstanceTypesIsUnion ==
  [][/\ lister \in {"rlocked", "keys"} => (mu.readers >= 1 /\ mu.writer = Nil)
     /\ lister = "keys" => Elems(keys) = DOMAIN onDemandPrices
     /\ (lister = "keys" /\ lister' = "idle") =>
          /\ Elems(types') = (DOMAIN onDemandPrices) \cup (DOMAIN spotPrices)
          /\ Len(types') = Cardinality((DOMAIN onDemandPrices) \cup (DOMAIN spotPrices))
          /\ onDemandPrices' = onDemandPrices /\ spotPrices' = spotPrices]_vars

\* C22 witness: InstanceTypes() returned two types while the on-demand table and the
\* spot table installed share one of them
C22_Witness ==
  /\ lister = "idle" /\ Len(types) = 2
  /\ Elems(types) = (DOMAIN onDemandPrices) \cup (DOMAIN spotPrices)
  /\ (DOMAIN onDemandPrices) \cap (DOMAIN spotPrices) # {}

\* the refresh <<j, c>> has installed the table it fetched
InstalledBy(j, c) == refresh[<<j, c>>].pc = "done" /\ refresh[<<j, c>>].err = Nil

\* C23: whenever refreshes of one category have installed their tables (the calls are
\* numbered in the order in which they start), the cached table is the one fetched by
\* the most recently started of them: it was not replaced afterwards by the table of a
\* refresh that started earlier
C23_NoRegression ==
  \A c \in Categories :
    LET done == {i \in CallIds : InstalledBy(i, c)} IN
      (done # {} /\ \A i \in CallIds : refresh[<<i, c>>].pc # "locked")
        => Table(c) = refresh[<<Last(done), c>>].pricing

C25_GetWalksTheChain ==
  (chain # <<>> /\ \A k \in 1..Len(chain) : ~chain[k].fails) =>
    /\ \A k \in 2..Len(tokens) : tokens[k] = returned[k - 1]
    /\ Len(tokens) <= Len(chain)
    /\ getPc = "returned" => (Len(tokens) = Len(chain) /\ got = Records(chain))

\* the sum of the requests for the resource rn of the pods bound under the keys ks
RECURSIVE SumRequested(_, _)
SumRequested(ks, rn) ==
  IF ks = {} THEN 0
  ELSE LET k == CHOOSE x \in ks : TRUE IN
         Quantity(Requested(pods[k]), rn) + SumRequested(ks \ {k}, rn)

\* the resource names that the node's totals or a pod's requests mention
ResourceNames == (DOMAIN used) \cup UNION {DOMAIN Requested(pod) : pod \in PodChoices}

\* C26: after any sequence of BindPod and DeletePod calls the node's used total of
\* each resource is the sum of the requests of the pods bound to it; with no pod
\* bound every total is zero
C26_UsedIsSumOfRequests ==
  \A rn \in ResourceNames : Quantity(used, rn) = SumRequested(DOMAIN pods, rn)

====
